---- MODULE Spec2Model ----
(***************************************************************************)
(* pycalc: tokens -> sign normalizer -> shunting-yard converter -> RPN     *)
(* evaluator (src/pycalc.py).  The model takes the token list that         *)
(* parse_expression returns as its input and follows the three stages one  *)
(* loop iteration at a time.  The specifications of the tokenizer and of   *)
(* repeated calls start one stage earlier, from the string handed to       *)
(* calculate: there input is the string, a sequence of one-character       *)
(* strings, and parse_expression turns it into the token list.             *)
(* remembered records the outcome of one earlier call of calculate, to     *)
(* compare a later call on the same string with.                           *)
(*                                                                         *)
(* Values.  Every element of result_stack, operator_stack and              *)
(* rpn_expression is a record [k, s, n, d]:                                *)
(*   k = "float"  a Python float whose value is the dyadic rational n/d    *)
(*   k = "int"    a Python int n (arises from arithmetic on bools)         *)
(*   k = "bool"   True (n = 1) or False (n = 0)                            *)
(*   k = "str"    the Python string s (an operator token, "(" ...)         *)
(*   k = "fn"     the function marker [s, n]: name s, argument count n     *)
(*   k = "irr"    a float the model does not carry exactly (math.pi ...)   *)
(* An operation whose exact result is outside these values (a rounded or   *)
(* irrational float, a complex number, a list, a value beyond              *)
(* MaxMagnitude) ends the run in pc = "unmodelled": the model says nothing *)
(* about such runs.                                                        *)
(***************************************************************************)
EXTENDS Integers, Sequences, FiniteSets, TLC

VARIABLES input, pc, expression, index, minus_counter, sign_counter,
          result_stack, operator_stack, rpn_expression, result, error,
          remembered

vars == <<input, pc, expression, index, minus_counter, sign_counter,
          result_stack, operator_stack, rpn_expression, result, error,
          remembered>>

(***************************************************************************)
(* Bounds of the model.                                                    *)
(***************************************************************************)
MaxLen == 5
MaxSignLen == 8
MaxOps == 3
MaxFairLen == 4
MaxPowLen == 5
MaxFnLen == 5
MaxCmpLen == 5
MaxChars == 4
MaxCallChars == 3
MaxSignCmpLen == 4
MaxStream == 5
MaxWork == 9
MaxMagnitude == 4096

(***************************************************************************)
(* The tables of src/pycalc.py.                                            *)
(***************************************************************************)
\* s * n on a Python string: n copies of s
RECURSIVE Repeat(_, _)
Repeat(s, n) == IF n <= 0 THEN "" ELSE s \o Repeat(s, n - 1)

\* the decimal number written with n digits 1
RECURSIVE Repunit(_)
Repunit(n) == IF n <= 0 THEN 0 ELSE 10 * Repunit(n - 1) + 1

\* the tokens float(token) accepts, among those the specifications can
\* produce: one digit, or a run of the digit 1 (a string of characters may
\* hold several in a row)
Literals ==
    {"0", "1", "2", "3"} \cup {Repeat("1", n) : n \in 2..(MaxChars + MaxCallChars)}

FloatOf(token) ==
    CASE token = "0" -> 0
      [] token = "1" -> 1
      [] token = "2" -> 2
      [] token = "3" -> 3
      [] OTHER -> Repunit(CHOOSE n \in 2..(MaxChars + MaxCallChars) :
                                 token = Repeat("1", n))

MODULE_CONSTANTS == {"pi", "e"}

MODULE_FUNCTIONS == {"abs", "pow"}

ARITHMETICAL_OPERATIONS == {"+", "-", "*", "/", "//", "%", "^", "-u"}

COMPARISON_OPERATIONS == {"==", "!=", "<", ">", "<=", ">="}

RIGHT_ASSOCIATIVE == {"^"}

\* PRECEDENCE with the unary minus below "^"
PRECEDENCE_UnaryBelowPower(op) ==
    CASE op \in {"==", "!=", "<", ">", "<=", ">=", "(", ")"} -> 0
      [] op \in {"+", "-"} -> 1
      [] op \in {"*", "/", "//", "%", "-u"} -> 2
      [] op = "^" -> 3

PRECEDENCE(op) ==
    CASE op \in {"==", "!=", "<", ">", "<=", ">=", "(", ")"} -> 0
      [] op \in {"+", "-"} -> 1
      [] op \in {"*", "/", "//", "%"} -> 2
      [] op = "^" -> 3
      [] op = "-u" -> 4

(***************************************************************************)
(* Values.                                                                 *)
(***************************************************************************)
VFloat(n, d) == [k |-> "float", s |-> "", n |-> n, d |-> d]
VInt(n) == [k |-> "int", s |-> "", n |-> n, d |-> 1]
VBool(b) == [k |-> "bool", s |-> "", n |-> IF b THEN 1 ELSE 0, d |-> 1]
VStr(s) == [k |-> "str", s |-> s, n |-> 0, d |-> 1]
VFn(name, arity) == [k |-> "fn", s |-> name, n |-> arity, d |-> 1]
VIrr(name) == [k |-> "irr", s |-> name, n |-> 0, d |-> 1]

IsNum(v) == v.k \in {"float", "int", "bool"}
IsIntLike(v) == v.k \in {"int", "bool"}
IsStr(v) == v.k = "str"
IsList(v) == v.k = "fn"

Min(a, b) == IF a < b THEN a ELSE b
Max(a, b) == IF a > b THEN a ELSE b
AbsInt(a) == IF a < 0 THEN -a ELSE a

RECURSIVE Gcd(_, _)
Gcd(a, b) == IF b = 0 THEN a ELSE Gcd(b, a % b)

RECURSIVE IsPow2(_)
IsPow2(d) == IF d = 1 THEN TRUE ELSE IF d % 2 # 0 THEN FALSE ELSE IsPow2(d \div 2)

\* Floor of n/d for d # 0.
FloorDiv(n, d) == IF d > 0 THEN n \div d ELSE (-n) \div (-d)

(***************************************************************************)
(* The outcome of applying a Python operator or function:                  *)
(* st = "ok" with value v, st = "raise" (the call raised), or              *)
(* st = "unmodelled" (the result is outside the values of the model).      *)
(***************************************************************************)
Ok(v) == [st |-> "ok", v |-> v]
Raise == [st |-> "raise", v |-> VStr("")]
Unmodelled == [st |-> "unmodelled", v |-> VStr("")]

\* The number n/d (d # 0) of kind k, reduced; unmodelled unless a small dyadic.
Num(k, n, d) ==
    LET g == Gcd(AbsInt(n), AbsInt(d))
        sn == IF d < 0 THEN -n ELSE n
        rn == sn \div g
        rd == AbsInt(d) \div g
    IN IF AbsInt(rn) > MaxMagnitude \/ rd > MaxMagnitude \/ ~IsPow2(rd)
       THEN Unmodelled
       ELSE Ok([k |-> k, s |-> "", n |-> rn, d |-> rd])

\* float if either operand is a float, else int (bools count as ints).
ArithKind(a, b) == IF a.k = "float" \/ b.k = "float" THEN "float" ELSE "int"

\* b ** e for e >= 0; once beyond MaxMagnitude the value is no longer multiplied.
RECURSIVE IntPow(_, _)
IntPow(b, e) ==
    IF e = 0 THEN 1
    ELSE LET r == IntPow(b, e - 1)
         IN IF AbsInt(r) > MaxMagnitude THEN r ELSE b * r

\* the largest e with 2 ** e <= m (m >= 1)
RECURSIVE Log2Floor(_)
Log2Floor(m) == IF m <= 1 THEN 0 ELSE 1 + Log2Floor(m \div 2)

\* the natural number r with r ** q = m (m >= 0, q >= 1), -1 when there is none
Root(m, q) ==
    IF m <= 1 THEN m
    ELSE IF q > Log2Floor(m) THEN -1
    ELSE IF \E r \in 2..m : IntPow(r, q) = m
    THEN CHOOSE r \in 2..m : IntPow(r, q) = m
    ELSE -1

\* x ** y as a float for x >= 0 and y = y.n / y.d with y.d > 1: exact when x is
\* the y.d-th power of a number of the model, else a rounded float
FractionalPow(x, y) ==
    IF x.n = 0 THEN (IF y.n < 0 THEN Raise ELSE Ok(VFloat(0, 1)))
    ELSE LET rn == Root(x.n, y.d)
             rd == Root(x.d, y.d)
         IN IF rn < 0 \/ rd < 0 THEN Unmodelled
            ELSE IF y.n >= 0 THEN Num("float", IntPow(rn, y.n), IntPow(rd, y.n))
            ELSE Num("float", IntPow(rd, -y.n), IntPow(rn, -y.n))

\* a ** b : operator.pow on two numbers.
PowNum(a, b) ==
    IF b.d # 1 THEN
        \* a fractional exponent: a negative base gives a complex number
        IF a.n < 0 THEN Unmodelled ELSE FractionalPow(a, b)
    ELSE IF b.n >= 0 THEN
        Num(ArithKind(a, b), IntPow(a.n, b.n), IntPow(a.d, b.n))
    ELSE IF a.n = 0 THEN Raise
    ELSE Num("float", IntPow(a.d, -b.n), IntPow(a.n, -b.n))

\* the code point of a character of an operator token or of a function name
Char_Code(c) ==
    CASE c = "!" -> 33 [] c = "%" -> 37 [] c = "(" -> 40 [] c = "*" -> 42
      [] c = "+" -> 43 [] c = "-" -> 45 [] c = "/" -> 47 [] c = "<" -> 60
      [] c = "=" -> 61 [] c = ">" -> 62 [] c = "^" -> 94 [] c = "a" -> 97
      [] c = "b" -> 98 [] c = "o" -> 111 [] c = "p" -> 112 [] c = "s" -> 115
      [] c = "u" -> 117 [] c = "w" -> 119

\* a < b on Python strings: by code point, a proper prefix first
RECURSIVE StrLess(_, _)
StrLess(a, b) ==
    IF b = "" THEN FALSE
    ELSE IF a = "" THEN TRUE
    ELSE IF Head(a) # Head(b) THEN Char_Code(Head(a)) < Char_Code(Head(b))
    ELSE StrLess(Tail(a), Tail(b))

\* a format string whose only conversions are "%%": every other "%" in a string
\* of operator characters (none of them a conversion type) is an error
RECURSIVE Formats(_)
Formats(s) ==
    IF s = "" THEN TRUE
    ELSE IF Head(s) # "%" THEN Formats(Tail(s))
    ELSE Len(s) >= 2 /\ Head(Tail(s)) = "%" /\ Formats(Tail(Tail(s)))

\* what such a format string gives: each "%%" becomes "%"
RECURSIVE Formatted(_)
Formatted(s) ==
    IF s = "" THEN ""
    ELSE IF Head(s) # "%" THEN Head(s) \o Formatted(Tail(s))
    ELSE "%" \o Formatted(Tail(Tail(s)))

\* the string holds the character c
RECURSIVE HasChar(_, _)
HasChar(s, c) == s # "" /\ (Head(s) = c \/ HasChar(Tail(s), c))

(***************************************************************************)
(* Python list indexing and slicing (0-based, negative indices count from  *)
(* the end) on TLA+ sequences (1-based).                                   *)
(***************************************************************************)
InRange(l, i) == -Len(l) <= i /\ i < Len(l)

\* l[i] for an index in range
PyGet(l, i) == IF i >= 0 THEN l[i + 1] ELSE l[Len(l) + i + 1]

\* the position a slice bound k denotes in l
SliceBound(l, k) == IF k < 0 THEN Max(Len(l) + k, 0) ELSE Min(k, Len(l))

\* l[:k]
PySliceTo(l, k) == SubSeq(l, 1, SliceBound(l, k))

\* l[k:]
PySliceFrom(l, k) == SubSeq(l, SliceBound(l, k) + 1, Len(l))

\* l[i] = v for an index in range
PySet(l, i, v) == [l EXCEPT ![IF i >= 0 THEN i + 1 ELSE Len(l) + i + 1] = v]

\* del l[i] for an index in range
PyDel(l, i) ==
    LET p == IF i >= 0 THEN i + 1 ELSE Len(l) + i + 1
    IN SubSeq(l, 1, p - 1) \o SubSeq(l, p + 1, Len(l))

RECURSIVE Reversed(_)
Reversed(l) == IF l = <<>> THEN <<>> ELSE Reversed(Tail(l)) \o <<Head(l)>>

(***************************************************************************)
(* The operators of ARITHMETICAL_OPERATIONS and COMPARISON_OPERATIONS      *)
(* (operator.add, sub, mul, truediv, floordiv, mod, pow, eq, ne, lt, gt,   *)
(* le, ge) on the values an RPN list can hold.                             *)
(***************************************************************************)
NumLess(a, b) == a.n * b.d < b.n * a.d
NumEq(a, b) == a.n * b.d = b.n * a.d

ArithNum(op, a, b) ==
    CASE op = "+" -> Num(ArithKind(a, b), a.n * b.d + b.n * a.d, a.d * b.d)
      [] op = "-" -> Num(ArithKind(a, b), a.n * b.d - b.n * a.d, a.d * b.d)
      [] op = "*" -> Num(ArithKind(a, b), a.n * b.n, a.d * b.d)
      [] op = "/" -> IF b.n = 0 THEN Raise
                     ELSE Num("float", a.n * b.d, a.d * b.n)
      [] op = "//" -> IF b.n = 0 THEN Raise
                      ELSE Num(ArithKind(a, b), FloorDiv(a.n * b.d, a.d * b.n), 1)
      [] op = "%" -> IF b.n = 0 THEN Raise
                     ELSE LET q == FloorDiv(a.n * b.d, a.d * b.n)
                          IN Num(ArithKind(a, b),
                                 a.n * b.d - q * b.n * a.d, a.d * b.d)
      [] op = "^" -> PowNum(a, b)

\* an ordering comparison (lt, gt, le, ge) given "less" and "equal"
Ordered(op, less, equal) ==
    CASE op = "<" -> less
      [] op = ">" -> ~less /\ ~equal
      [] op = "<=" -> less \/ equal
      [] op = ">=" -> ~less

\* math.pi and math.e against the numbers of the model: no number n/d of the
\* model lies between this decimal and the constant, and none equals either
IrrBelow(v) ==
    IF v.k # "irr" THEN v
    ELSE [n |-> IF v.s = "pi" THEN 314159 ELSE 271828, d |-> 100000]

CompareOp(op, a, b) ==
    LET numeric(v) == IsNum(v) \/ v.k = "irr"
        both_irr == a.k = "irr" /\ b.k = "irr"
        equal == IF both_irr THEN a.s = b.s
                 ELSE IF numeric(a) /\ numeric(b)
                 THEN a.k # "irr" /\ b.k # "irr" /\ NumEq(a, b)
                 ELSE a.k = b.k /\ a = b
    IN IF op \in {"==", "!="} THEN Ok(VBool(IF op = "==" THEN equal ELSE ~equal))
       ELSE IF numeric(a) /\ numeric(b) THEN
           \* e < pi
           Ok(VBool(Ordered(op,
                            IF both_irr THEN a.s = "e" /\ b.s = "pi"
                            ELSE NumLess(IrrBelow(a), IrrBelow(b)),
                            equal)))
       ELSE IF IsStr(a) /\ IsStr(b) THEN
           \* strings compare by code point
           Ok(VBool(Ordered(op, StrLess(a.s, b.s), equal)))
       ELSE IF IsList(a) /\ IsList(b) THEN
           \* lists compare by their first elements that differ: the name, then
           \* the count
           Ok(VBool(Ordered(op,
                            IF a.s # b.s THEN StrLess(a.s, b.s) ELSE a.n < b.n,
                            equal)))
       ELSE Raise

ArithOp(op, a, b) ==
    IF IsNum(a) /\ IsNum(b) THEN ArithNum(op, a, b)
    ELSE IF (a.k = "irr" /\ (IsNum(b) \/ b.k = "irr")) \/ (b.k = "irr" /\ IsNum(a))
    THEN Unmodelled
    ELSE IF op = "+" THEN
        \* str + str concatenates, list + list concatenates
        IF IsStr(a) /\ IsStr(b) THEN Ok(VStr(a.s \o b.s))
        ELSE IF IsList(a) /\ IsList(b) THEN Unmodelled
        ELSE Raise
    ELSE IF op = "*" THEN
        \* a sequence times an int (or bool) repeats it
        IF IsStr(a) /\ IsIntLike(b) THEN Ok(VStr(Repeat(a.s, b.n)))
        ELSE IF IsIntLike(a) /\ IsStr(b) THEN Ok(VStr(Repeat(b.s, a.n)))
        ELSE IF (IsList(a) /\ IsIntLike(b)) \/ (IsIntLike(a) /\ IsList(b))
        THEN \* one copy of the list is the list; other counts give a list that
             \* is no marker
             IF IsList(a) /\ b.n = 1 THEN Ok(a)
             ELSE IF IsList(b) /\ a.n = 1 THEN Ok(b)
             ELSE Unmodelled
        ELSE Raise
    ELSE IF op = "%" /\ IsStr(a) THEN
        \* str % x is string formatting
        IF HasChar(a.s, "%") /\ HasChar(a.s, "u") THEN Unmodelled
        ELSE IF IsList(b) /\ Formats(a.s)
        THEN \* a list is taken as a mapping, which no conversion here reads
             Ok(VStr(Formatted(a.s)))
        ELSE Raise
    ELSE Raise

\* the operation of ARITHMETICAL_OPERATIONS / COMPARISON_OPERATIONS applied
BinaryOp(op, a, b) ==
    IF op \in COMPARISON_OPERATIONS THEN CompareOp(op, a, b) ELSE ArithOp(op, a, b)

\* -x
Negate(a) ==
    IF IsNum(a) THEN Num(IF a.k = "float" THEN "float" ELSE "int", -a.n, a.d)
    ELSE IF a.k = "irr" THEN Unmodelled
    ELSE Raise

(***************************************************************************)
(* The registry functions of the model: the builtin abs (one argument) and *)
(* math.pow (exactly two arguments).                                       *)
(***************************************************************************)
math_pow(x, y) ==
    IF y.d # 1 THEN
        IF x.n < 0 THEN Raise ELSE FractionalPow(x, y)
    ELSE IF y.n >= 0 THEN Num("float", IntPow(x.n, y.n), IntPow(x.d, y.n))
    ELSE IF x.n = 0 THEN Raise
    ELSE Num("float", IntPow(x.d, -y.n), IntPow(x.n, -y.n))

\* the argument counts the registry function accepts
Accepts(name, count) ==
    \/ name = "abs" /\ count = 1
    \/ name = "pow" /\ count = 2

CallFunction(name, args) ==
    IF ~Accepts(name, Len(args)) THEN Raise
    ELSE IF \E i \in 1..Len(args) : args[i].k = "irr" THEN Unmodelled
    ELSE IF name = "abs" THEN
        IF IsNum(args[1])
        THEN Num(IF args[1].k = "float" THEN "float" ELSE "int",
                 AbsInt(args[1].n), args[1].d)
        ELSE Raise
    ELSE IF name = "pow" THEN
        IF IsNum(args[1]) /\ IsNum(args[2])
        THEN math_pow(args[1], args[2])
        ELSE Raise
    ELSE Raise

(***************************************************************************)
(* parse_expression.  The string is a sequence of one-character strings;   *)
(* the pattern of line 32 is tried at each position from the left, its     *)
(* alternatives in the order written.                                      *)
(***************************************************************************)
\* \s, among the characters of the specifications
Whitespace == {" ", "\t", "\n"}

\* the character class [\s(),<>+%*^-]
SingleDelimiters == Whitespace \cup {"(", ")", ",", "<", ">", "+", "%", "*", "^", "-"}

\* the characters of s from position p (1-based) on start with c then d
StartsWith(s, p, c, d) == p + 1 <= Len(s) /\ s[p] = c /\ s[p + 1] = d

\* DelimiterAt that tries the one-character alternatives first
DelimiterAt_ShortestFirst(s, p) ==
    IF s[p] \in SingleDelimiters \cup {"/"} THEN 1
    ELSE IF \E c \in {"!", ">", "<", "="} : StartsWith(s, p, c, "=") THEN 2
    ELSE 0

\* the number of characters the pattern matches at position p, 0 for no
\* match: [!><=]= , else one character of the class, else /{1,2} (greedy)
DelimiterAt(s, p) ==
    IF \E c \in {"!", ">", "<", "="} : StartsWith(s, p, c, "=") THEN 2
    ELSE IF s[p] \in SingleDelimiters THEN 1
    ELSE IF StartsWith(s, p, "/", "/") THEN 2
    ELSE IF s[p] = "/" THEN 1
    ELSE 0

\* the Python string made of the characters cs
RECURSIVE Join(_)
Join(cs) == IF cs = <<>> THEN "" ELSE Head(cs) \o Join(Tail(cs))

\* re.split with the capturing group of line 32, from position p with the
\* text gathered since the last match: text, match, text, ..., text
RECURSIVE re_split(_, _, _)
re_split(s, p, text) ==
    IF p > Len(s) THEN <<text>>
    ELSE LET m == DelimiterAt(s, p)
         IN IF m = 0 THEN re_split(s, p + 1, text \o s[p])
            ELSE <<text, Join(SubSeq(s, p, p + m - 1))>> \o re_split(s, p + m, "")

\* item.replace(' ', ''): the space is a delimiter, so the only item that
\* holds one is the match " "
ReplaceSpace(item) == IF item = " " THEN "" ELSE item

\* line 33: filter(None, ...) keeps the items that are not empty
parse_expression(s) ==
    SelectSeq([i \in 1..Len(re_split(s, 1, "")) |->
                   ReplaceSpace(re_split(s, 1, "")[i])],
              LAMBDA item : item # "")

(***************************************************************************)
(* process_negative_numbers: one iteration of its while loop.              *)
(***************************************************************************)
\* CollapsedSign that makes the run negative as soon as it holds a minus
CollapsedSign_AnyMinus(minuses) == IF minuses = 0 THEN "+" ELSE "-"

\* the sign a run collapses to
CollapsedSign(minuses) == IF minuses % 2 = 0 THEN "+" ELSE "-"

\* the test that makes the collapsed sign at position i (0-based) unary
IsUnaryPosition(e, i) ==
    \/ i = 0
    \/ PyGet(e, i - 1) \in ARITHMETICAL_OPERATIONS
    \/ PyGet(e, i - 1) = "("
    \/ PyGet(e, i - 1) = ","

\* lines 49-64: the token at i ends a run of sc signs, mc of them minuses
CollapseRun(e, i, mc, sc) ==
    LET cut == PySliceTo(e, i - sc + 1) \o PySliceFrom(e, i)
        j == i - sc
        signed == PySet(cut, j, CollapsedSign(mc))
        out == IF IsUnaryPosition(signed, j)
               THEN IF PyGet(signed, j) = "-"
                    THEN PySet(signed, j, "-u")
                    ELSE PyDel(signed, j)
               ELSE signed
    IN [expression |-> out, index |-> j + 1,
        minus_counter |-> 0, sign_counter |-> 0]

NormalizeStep(e, i, mc, sc) ==
    IF PyGet(e, i) = "-" THEN
        [expression |-> e, index |-> i + 1,
         minus_counter |-> mc + 1, sign_counter |-> sc + 1]
    ELSE IF PyGet(e, i) = "+" THEN
        [expression |-> e, index |-> i + 1,
         minus_counter |-> mc, sign_counter |-> sc + 1]
    ELSE IF sc # 0 THEN CollapseRun(e, i, mc, sc)
    ELSE [expression |-> e, index |-> i + 1,
          minus_counter |-> mc, sign_counter |-> sc]

(***************************************************************************)
(* expression_to_rpn: one iteration of its for loop.  A conversion state   *)
(* is [rs, os, err]: result_stack, operator_stack and the exception        *)
(* raised ("" when none).                                                  *)
(***************************************************************************)
Conv(rs, os, err) == [rs |-> rs, os |-> os, err |-> err]

Top(os) == os[Len(os)]
Pop(os) == SubSeq(os, 1, Len(os) - 1)

\* StopsPopping without the clause for right-associative operators
StopsPopping_LeftAssociative(top, token) ==
    ~(PRECEDENCE(top) >= PRECEDENCE(token))

\* StopsPopping that keeps an operator of equal precedence on the stack
StopsPopping_Strict(top, token) ==
    ~(PRECEDENCE(top) > PRECEDENCE(token))

\* lines 83-84: the incoming operator token does not pop the stack top
StopsPopping(top, token) ==
    \/ token \in RIGHT_ASSOCIATIVE /\ ~(PRECEDENCE(top) > PRECEDENCE(token))
    \/ ~(PRECEDENCE(top) >= PRECEDENCE(token))

\* lines 82-87
RECURSIVE PopForArithmetic(_, _, _)
PopForArithmetic(token, rs, os) ==
    IF os = <<>> THEN Conv(rs, os, "")
    ELSE IF IsList(Top(os)) THEN Conv(rs, os, "TypeError")
    ELSE IF StopsPopping(Top(os).s, token) THEN Conv(rs, os, "")
    ELSE PopForArithmetic(token, Append(rs, Top(os)), Pop(os))

\* StopsComparison that also stops at a comparison operator
StopsComparison_AtComparison(top) ==
    \/ top = VStr("(")
    \/ top = VStr(",")
    \/ IsStr(top) /\ top.s \in COMPARISON_OPERATIONS

\* line 90: the entries an incoming comparison operator stops at
StopsComparison(top) == top = VStr("(") \/ top = VStr(",")

\* lines 90-91
RECURSIVE PopForComparison(_, _)
PopForComparison(rs, os) ==
    IF os = <<>> \/ StopsComparison(Top(os)) THEN Conv(rs, os, "")
    ELSE PopForComparison(Append(rs, Top(os)), Pop(os))

\* lines 105-106 and 114-115
RECURSIVE PopToParen(_, _)
PopToParen(rs, os) ==
    IF os = <<>> \/ Top(os) = VStr("(") THEN Conv(rs, os, "")
    ELSE PopToParen(Append(rs, Top(os)), Pop(os))

\* lines 116-118: the 1-based position of the function marker nearest the top
\* of the stack, 0 when the search runs off the stack (IndexError)
RECURSIVE LastFunction(_, _)
LastFunction(os, p) ==
    IF p = 0 THEN 0
    ELSE IF IsList(os[p]) THEN p
    ELSE LastFunction(os, p - 1)

\* lines 104-111
CloseParen(rs, os) ==
    LET c == PopToParen(rs, os)
    IN IF c.os = <<>> THEN Conv(c.rs, c.os, "ERROR: incorrect brackets")
       ELSE LET rest == Pop(c.os)
            IN IF rest # <<>> /\ IsList(Top(rest))
               THEN Conv(Append(c.rs, Top(rest)), Pop(rest), "")
               ELSE Conv(c.rs, rest, "")

\* lines 112-119
Comma(rs, os) ==
    LET c == PopToParen(rs, os)
        p == LastFunction(c.os, Len(c.os))
    IN IF p = 0 THEN Conv(c.rs, c.os, "IndexError")
       ELSE Conv(c.rs, [c.os EXCEPT ![p].n = @ + 1], "")

\* FunctionToken without the test for the opening bracket
FunctionToken_Unchecked(e, i, rs, os) ==
    Conv(rs, Append(os, VFn(PyGet(e, i), 1)), "")

\* lines 95-100: e is the token list, i the 0-based index of the function name
FunctionToken(e, i, rs, os) ==
    IF ~InRange(e, i + 1) THEN Conv(rs, os, "IndexError")
    ELSE IF PyGet(e, i + 1) # "(" THEN
        Conv(rs, os, "ERROR: no opening bracket after function")
    ELSE Conv(rs, Append(os, VFn(PyGet(e, i), 1)), "")

\* lines 74-121 for the token at index i
ConvertStep(e, i, rs, os) ==
    LET token == PyGet(e, i)
    IN IF token \in Literals THEN Conv(Append(rs, VFloat(FloatOf(token), 1)), os, "")
       ELSE IF token \in ARITHMETICAL_OPERATIONS THEN
           LET c == PopForArithmetic(token, rs, os)
           IN IF c.err # "" THEN c ELSE Conv(c.rs, Append(c.os, VStr(token)), "")
       ELSE IF token \in COMPARISON_OPERATIONS THEN
           LET c == PopForComparison(rs, os)
           IN Conv(c.rs, Append(c.os, VStr(token)), "")
       ELSE IF token \in MODULE_CONSTANTS THEN Conv(Append(rs, VIrr(token)), os, "")
       ELSE IF token \in MODULE_FUNCTIONS THEN FunctionToken(e, i, rs, os)
       ELSE IF token = "(" THEN Conv(rs, Append(os, VStr(token)), "")
       ELSE IF token = ")" THEN CloseParen(rs, os)
       ELSE IF token = "," THEN Comma(rs, os)
       ELSE Conv(rs, os, "ERROR: unknown operation")

\* line 123
Drain(rs, os) == rs \o Reversed(os)

(***************************************************************************)
(* calculate_rpn_expression: one iteration of its while loop.  An          *)
(* evaluation state is [rpn, index, st, err]: st = "run" while the loop    *)
(* goes on, "error" once an exception leaves it (err names it),            *)
(* "unmodelled" when a result is outside the values of the model.          *)
(***************************************************************************)
Eval(rpn, i, st, err) == [rpn |-> rpn, index |-> i, st |-> st, err |-> err]

\* line 143-144 and line 164: the elements from `from` up to the cursor are
\* replaced by the result
Splice(rpn, from, i, r) == PySliceTo(rpn, from) \o <<r>> \o PySliceFrom(rpn, i + 1)

\* lines 131-147
EvalFunction(rpn, i) ==
    LET marker == PyGet(rpn, i)
        number_of_arguments == marker.n
    IN IF \E a \in 1..number_of_arguments : ~InRange(rpn, i - a)
       THEN Eval(rpn, i, "error", "Incorrect arguments for function")
       ELSE LET function_arguments ==
                    [j \in 1..number_of_arguments |->
                        PyGet(rpn, i - number_of_arguments + j - 1)]
                r == CallFunction(marker.s, function_arguments)
            IN IF r.st = "raise"
               THEN Eval(rpn, i, "error", "Incorrect arguments for function")
               ELSE IF r.st = "unmodelled" THEN Eval(rpn, i, "unmodelled", "")
               ELSE Eval(Splice(rpn, i - number_of_arguments, i, r.v),
                         i - number_of_arguments, "run", "")

\* lines 148-154
EvalUnaryMinus(rpn, i) ==
    IF ~InRange(rpn, i - 1) THEN Eval(rpn, i, "error", "Unary operation failure")
    ELSE LET r == Negate(PyGet(rpn, i - 1))
         IN IF r.st = "raise" THEN Eval(rpn, i, "error", "Unary operation failure")
            ELSE IF r.st = "unmodelled" THEN Eval(rpn, i, "unmodelled", "")
            ELSE Eval(PyDel(PySet(rpn, i - 1, r.v), i), i - 1, "run", "")

\* EvalOperation that takes the later element as the left operand
EvalOperation_Swapped(rpn, i) ==
    IF ~InRange(rpn, i - 2) \/ ~InRange(rpn, i - 1)
    THEN Eval(rpn, i, "error", "Incorrect operands for operation")
    ELSE LET r == BinaryOp(PyGet(rpn, i).s, PyGet(rpn, i - 1), PyGet(rpn, i - 2))
         IN IF r.st = "raise"
            THEN Eval(rpn, i, "error", "Incorrect operands for operation")
            ELSE IF r.st = "unmodelled" THEN Eval(rpn, i, "unmodelled", "")
            ELSE Eval(Splice(rpn, i - 2, i, r.v), i - 2, "run", "")

\* lines 155-167
EvalOperation(rpn, i) ==
    IF ~InRange(rpn, i - 2) \/ ~InRange(rpn, i - 1)
    THEN Eval(rpn, i, "error", "Incorrect operands for operation")
    ELSE LET r == BinaryOp(PyGet(rpn, i).s, PyGet(rpn, i - 2), PyGet(rpn, i - 1))
         IN IF r.st = "raise"
            THEN Eval(rpn, i, "error", "Incorrect operands for operation")
            ELSE IF r.st = "unmodelled" THEN Eval(rpn, i, "unmodelled", "")
            ELSE Eval(Splice(rpn, i - 2, i, r.v), i - 2, "run", "")

\* line 155: the element is an operator token
IsOperation(x) ==
    IsStr(x) /\ (x.s \in ARITHMETICAL_OPERATIONS \/ x.s \in COMPARISON_OPERATIONS)

\* lines 131-169 at cursor i
EvalStep(rpn, i) ==
    IF ~InRange(rpn, i) THEN Eval(rpn, i, "error", "IndexError")
    ELSE IF IsList(PyGet(rpn, i)) THEN EvalFunction(rpn, i)
    ELSE IF PyGet(rpn, i) = VStr("-u") THEN EvalUnaryMinus(rpn, i)
    ELSE IF IsOperation(PyGet(rpn, i)) THEN EvalOperation(rpn, i)
    ELSE Eval(rpn, i + 1, "run", "")

\* line 171: isinstance(x, (float, bool, int))
IsResult(x) == IsNum(x) \/ x.k = "irr"

(***************************************************************************)
(* The pipeline of calculate, from the token list of parse_expression.     *)
(***************************************************************************)
NoValue == VStr("")

\* no earlier call is remembered
NoCall == [input |-> <<>>, pc |-> "", result |-> NoValue, error |-> "",
           failed_since |-> FALSE]

InitWith(inputs) ==
    /\ input \in inputs
    /\ pc = "normalize"
    /\ expression = input
    /\ index = 0
    /\ minus_counter = 0
    /\ sign_counter = 0
    /\ result_stack = <<>>
    /\ operator_stack = <<>>
    /\ rpn_expression = <<>>
    /\ result = NoValue
    /\ error = ""
    /\ remembered = NoCall

\* NormalizerLocals that keeps the count of minuses of the call before
NormalizerLocals_KeptMinuses ==
    [index |-> 0, minus_counter |-> minus_counter, sign_counter |-> 0]

\* lines 38-40: the locals process_negative_numbers starts with
NormalizerLocals == [index |-> 0, minus_counter |-> 0, sign_counter |-> 0]

\* lines 176-177 and 30-33, then lines 38-40
Parse ==
    /\ pc = "parse"
    /\ IF input = <<>>
       THEN /\ pc' = "error"
            /\ error' = "Empty expression"
            /\ UNCHANGED <<expression, index, minus_counter, sign_counter>>
       ELSE /\ expression' = parse_expression(input)
            /\ index' = NormalizerLocals.index
            /\ minus_counter' = NormalizerLocals.minus_counter
            /\ sign_counter' = NormalizerLocals.sign_counter
            /\ pc' = "normalize"
            /\ UNCHANGED error
    /\ UNCHANGED <<input, remembered, result_stack, operator_stack,
                   rpn_expression, result>>

\* the outcome of the call that has ended: its value or its exception
Outcome == [input |-> input, pc |-> pc, result |-> result, error |-> error,
            failed_since |-> FALSE]

\* the remembered call, with the note that a call has raised since
StillRemembered ==
    IF remembered = NoCall THEN NoCall
    ELSE [remembered EXCEPT !.failed_since = @ \/ pc = "error"]

\* calculate is called again, on any string, after a call that returned or
\* raised; the outcome of the call that ended may be kept for comparison
Call(strings) ==
    /\ pc \in {"done", "error"}
    /\ input' \in strings
    /\ pc' = "parse"
    /\ result' = NoValue
    /\ error' = ""
    /\ remembered' \in {StillRemembered, Outcome}
    /\ UNCHANGED <<expression, index, minus_counter, sign_counter, result_stack,
                   operator_stack, rpn_expression>>

\* lines 41-65
Normalize ==
    /\ pc = "normalize"
    /\ index < Len(expression)
    /\ LET n == NormalizeStep(expression, index, minus_counter, sign_counter)
       IN /\ expression' = n.expression
          /\ index' = n.index
          /\ minus_counter' = n.minus_counter
          /\ sign_counter' = n.sign_counter
    /\ UNCHANGED <<input, remembered, pc, result_stack, operator_stack, rpn_expression,
                   result, error>>

\* line 66, then lines 71-72
NormalizeReturn ==
    /\ pc = "normalize"
    /\ ~(index < Len(expression))
    /\ pc' = "convert"
    /\ index' = 0
    /\ result_stack' = <<>>
    /\ operator_stack' = <<>>
    /\ UNCHANGED <<input, remembered, expression, minus_counter, sign_counter,
                   rpn_expression, result, error>>

\* lines 74-121
Convert ==
    /\ pc = "convert"
    /\ index < Len(expression)
    /\ LET c == ConvertStep(expression, index, result_stack, operator_stack)
       IN IF c.err # ""
          THEN /\ pc' = "error"
               /\ error' = c.err
               /\ UNCHANGED <<index, result_stack, operator_stack>>
          ELSE /\ result_stack' = c.rs
               /\ operator_stack' = c.os
               /\ index' = index + 1
               /\ UNCHANGED <<pc, error>>
    /\ UNCHANGED <<input, remembered, expression, minus_counter, sign_counter,
                   rpn_expression, result>>

\* lines 123-124, then line 129
ConvertReturn ==
    /\ pc = "convert"
    /\ ~(index < Len(expression))
    /\ rpn_expression' = Drain(result_stack, operator_stack)
    /\ pc' = "evaluate"
    /\ index' = 0
    /\ UNCHANGED <<input, remembered, expression, minus_counter, sign_counter, result_stack,
                   operator_stack, result, error>>

\* lines 130-169; a working list longer than MaxWork is not followed further
Evaluate ==
    /\ pc = "evaluate"
    /\ Len(rpn_expression) > 1
    /\ LET s == EvalStep(rpn_expression, index)
       IN IF s.st = "run" /\ Len(s.rpn) > MaxWork
          THEN /\ pc' = "overgrown"
               /\ UNCHANGED <<rpn_expression, index, error>>
          ELSE /\ rpn_expression' = s.rpn
               /\ index' = s.index
               /\ pc' = IF s.st = "run" THEN "evaluate" ELSE s.st
               /\ error' = s.err
    /\ UNCHANGED <<input, remembered, expression, minus_counter, sign_counter, result_stack,
                   operator_stack, result>>

\* lines 171-173
EvaluateReturn ==
    /\ pc = "evaluate"
    /\ ~(Len(rpn_expression) > 1)
    /\ IF rpn_expression = <<>>
       THEN /\ pc' = "error"
            /\ error' = "IndexError"
            /\ UNCHANGED result
       ELSE IF ~IsResult(rpn_expression[1])
       THEN /\ pc' = "error"
            /\ error' = "Incorrect expression"
            /\ UNCHANGED result
       ELSE /\ pc' = "done"
            /\ result' = rpn_expression[1]
            /\ UNCHANGED error
    /\ UNCHANGED <<input, remembered, expression, index, minus_counter, sign_counter,
                   result_stack, operator_stack, rpn_expression>>

Next ==
    \/ Normalize
    \/ NormalizeReturn
    \/ Convert
    \/ ConvertReturn
    \/ Evaluate
    \/ EvaluateReturn

\* token lists of length at most n over an alphabet
SeqsUpTo(alphabet, n) == UNION {[1..m -> alphabet] : m \in 0..n}

(***************************************************************************)
(* Specifications.  Each draws the token list from a bounded set and runs  *)
(* the whole pipeline on it.                                               *)
(***************************************************************************)
\* malformed and well-formed expressions with parentheses and a function
Alphabet == {"1", "2", "+", "==", "(", ")", ",", "abs"}
Init == InitWith(SeqsUpTo(Alphabet, MaxLen))
Spec == Init /\ [][Next]_vars

\* the evaluator's loop runs as long as its condition holds
FairAlphabet == {"1", "==", "(", ")", "abs"}
InitFair == InitWith(SeqsUpTo(FairAlphabet, MaxFairLen))
FairSpec == InitFair /\ [][Next]_vars /\ WF_vars(Next)

\* sign runs
SignAlphabet == {"+", "-", "1"}
InitSign == InitWith(SeqsUpTo(SignAlphabet, MaxSignLen))
SpecSign == InitSign /\ [][Next]_vars

\* exponentiation and unary minus
PowAlphabet == {"1", "2", "3", "^", "-"}
InitPow == InitWith(SeqsUpTo(PowAlphabet, MaxPowLen))
SpecPow == InitPow /\ [][Next]_vars

\* well-formed parenthesis-free expressions: operands and binary operators
\* alternate
ArithOperands == {"1", "2"}
ArithOperators == {"+", "-", "*", "/", "//", "%"}
Interleave(operands, operators) ==
    [i \in 1..(2 * Len(operators) + 1) |->
        IF i % 2 = 1 THEN operands[(i + 1) \div 2] ELSE operators[i \div 2]]
WellFormed(n) ==
    UNION {{Interleave(o, p) : o \in [1..(m + 1) -> ArithOperands],
                               p \in [1..m -> ArithOperators]} : m \in 0..n}
InitArith == InitWith(WellFormed(MaxOps))
SpecArith == InitArith /\ [][Next]_vars

\* function calls
FnAlphabet == {"1", "+", "(", ")", ",", "abs", "pow"}
InitFn == InitWith(SeqsUpTo(FnAlphabet, MaxFnLen))
SpecFn == InitFn /\ [][Next]_vars

\* comparisons
CmpAlphabet == {"1", "2", ">", "==", "+", "(", ")"}
InitCmp == InitWith(SeqsUpTo(CmpAlphabet, MaxCmpLen))
SpecCmp == InitCmp /\ [][Next]_vars

\* signs next to comparison operators
SignCmpAlphabet == {"1", "2", "+", "-", "==", "<"}
InitSignCmp == InitWith(SeqsUpTo(SignCmpAlphabet, MaxSignCmpLen))
SpecSignCmp == InitSignCmp /\ [][Next]_vars

\* calculate from the string on: the tokenizer, then the pipeline
InitString(strings) ==
    /\ input \in strings
    /\ pc = "parse"
    /\ expression = <<>>
    /\ index = 0
    /\ minus_counter = 0
    /\ sign_counter = 0
    /\ result_stack = <<>>
    /\ operator_stack = <<>>
    /\ rpn_expression = <<>>
    /\ result = NoValue
    /\ error = ""
    /\ remembered = NoCall

\* the tokenizer on strings with blanks, tabs and one- and two-character
\* operators
ParseCharacters == {"1", " ", "\t", "=", "<", "!", "/"}
InitParse == InitString(SeqsUpTo(ParseCharacters, MaxChars))
NextParse == Parse \/ Next
SpecParse == InitParse /\ [][NextParse]_vars

\* calculate called again and again, on strings that return and strings
\* that fail
CallCharacters == {"1", "-"}
CallStrings == SeqsUpTo(CallCharacters, MaxCallChars)
InitCalls == InitString(CallStrings)
NextCalls == Call(CallStrings) \/ Parse \/ Next
SpecCalls == InitCalls /\ [][NextCalls]_vars

(***************************************************************************)
(* Shared vocabulary of the properties.                                    *)
(***************************************************************************)
\* calculate returned a value
Returned == pc = "done"

\* the converter has handed its stream to the evaluator and nothing has been
\* reduced yet
StreamHandedOver == pc = "evaluate" /\ Len(rpn_expression) = Len(input)

Operands == Literals \cup MODULE_CONSTANTS

\* the stream element of a token: a literal's float, else the token's string
Element(token) ==
    IF token \in Literals THEN VFloat(FloatOf(token), 1) ELSE VStr(token)

Elements(tokens) == [i \in 1..Len(tokens) |-> Element(tokens[i])]

\* the nesting depth after the tokens, -1 once a ")" had no "(" to close
RECURSIVE ParenDepth(_, _)
ParenDepth(tokens, depth) ==
    IF depth < 0 \/ tokens = <<>> THEN depth
    ELSE ParenDepth(Tail(tokens),
                    IF Head(tokens) = "(" THEN depth + 1
                    ELSE IF Head(tokens) = ")" THEN depth - 1
                    ELSE depth)

Unbalanced(tokens) == ParenDepth(tokens, 0) # 0

(***************************************************************************)
(* C1: calculate fails for every expression whose parentheses are          *)
(* unbalanced: it never returns a value for one.                           *)
(***************************************************************************)
C1_UnbalancedNeverReturns == ~(Returned /\ Unbalanced(input))

(***************************************************************************)
(* C2: calculate fails for every expression in which two operands are      *)
(* adjacent with no operator between them.                                 *)
(***************************************************************************)
AdjacentOperands(tokens) ==
    \E i \in 1..(Len(tokens) - 1) : tokens[i] \in Operands /\ tokens[i + 1] \in Operands

C2_AdjacentOperandsNeverReturn == ~(Returned /\ AdjacentOperands(input))

(***************************************************************************)
(* C3: calculate terminates for every input: the evaluator reaches, after  *)
(* finitely many steps, one residual value or an error.                    *)
(*                                                                         *)
(* The model follows the working list up to MaxWork elements.  A run cut   *)
(* there counts as not ended only in a Recurrent state, one the loop       *)
(* provably never leaves: the list starts with the marker of a one-        *)
(* argument call of abs, ends with a number, and the cursor is at 0 or -1. *)
(* At -1 the cursor moves on to 0; at 0 the marker reads the last element  *)
(* as its argument and `rpn[:index-1] + [r] + rpn[index+1:]` puts the      *)
(* result between a copy of the list without its last element and one      *)
(* without its first, so the list has 2n-1 elements, still starts with the *)
(* marker and ends with the number, and the cursor is -1 again.            *)
(***************************************************************************)
Recurrent ==
    /\ Len(rpn_expression) >= 2
    /\ index \in {-1, 0}
    /\ PyGet(rpn_expression, 0) = VFn("abs", 1)
    /\ IsNum(PyGet(rpn_expression, -1))

\* every step from a Recurrent state leads to a Recurrent state with a list
\* at least as long (checked with C3; not a claim of its own)
RecurrentIsClosed ==
    [][(pc = "evaluate" /\ Recurrent)
         => /\ Recurrent'
            /\ pc' \in {"evaluate", "overgrown"}
            /\ Len(rpn_expression') >= Len(rpn_expression)]_vars

C3_Terminates ==
    <>(\/ pc \in {"done", "error", "unmodelled"}
       \/ pc = "overgrown" /\ ~Recurrent)

(***************************************************************************)
(* C4: calculate fails for every expression containing a function call     *)
(* whose number of supplied arguments the registry function does not       *)
(* accept.  The calls recognised here are name ( operand , ... , operand ) *)
(* and name ( ).                                                           *)
(***************************************************************************)
\* the number of operands of the argument list that starts at position p,
\* -1 when the tokens from p on are not operand , ... , operand )
RECURSIVE ArgumentsFrom(_, _, _)
ArgumentsFrom(tokens, p, count) ==
    IF p + 1 > Len(tokens) \/ tokens[p] \notin Operands THEN -1
    ELSE IF tokens[p + 1] = ")" THEN count + 1
    ELSE IF tokens[p + 1] = "," THEN ArgumentsFrom(tokens, p + 2, count + 1)
    ELSE -1

\* the number of arguments supplied to the call whose name is at position i,
\* -1 when no such call starts there
SuppliedArguments(tokens, i) ==
    IF i + 2 > Len(tokens) \/ tokens[i] \notin MODULE_FUNCTIONS \/ tokens[i + 1] # "("
    THEN -1
    ELSE IF tokens[i + 2] = ")" THEN 0
    ELSE ArgumentsFrom(tokens, i + 2, 0)

RejectedCall(tokens) ==
    \E i \in 1..Len(tokens) :
        /\ SuppliedArguments(tokens, i) >= 0
        /\ ~Accepts(tokens[i], SuppliedArguments(tokens, i))

C4_RejectedCallNeverReturns == ~(Returned /\ RejectedCall(input))

(***************************************************************************)
(* C5: exponentiation is right-associative: a^b^c is converted to          *)
(* a b c ^ ^ and calculate returns a^(b^c); an incoming "^" never pops a   *)
(* "^" from the operator stack.                                            *)
(***************************************************************************)
CountOf(l, v) == Cardinality({i \in 1..Len(l) : l[i] = v})

IsPowChain(tokens) ==
    /\ Len(tokens) = 5
    /\ tokens[1] \in Literals /\ tokens[3] \in Literals /\ tokens[5] \in Literals
    /\ tokens[2] = "^" /\ tokens[4] = "^"

C5_ChainGroupsRight ==
    IsPowChain(input) =>
        /\ pc \notin {"error", "overgrown"}
        /\ StreamHandedOver =>
              rpn_expression =
                  Elements(<<input[1], input[3], input[5], "^", "^">>)
        /\ Returned =>
              result = VFloat(IntPow(FloatOf(input[1]),
                                     IntPow(FloatOf(input[3]), FloatOf(input[5]))), 1)

\* a converter step on an incoming "^" moves no "^" to the output
C5_PowKeepsPow ==
    (pc = "convert" /\ index < Len(expression) /\ PyGet(expression, index) = "^")
        => CountOf(result_stack', VStr("^")) = CountOf(result_stack, VStr("^"))

C5_RightAssociative == [](C5_ChainGroupsRight) /\ [][C5_PowKeepsPow]_vars

C5_Witness ==
    /\ Returned
    /\ input = <<"2", "^", "3", "^", "2">>
    /\ result = VFloat(512, 1)

(***************************************************************************)
(* C6: for every well-formed parenthesis-free expression over the binary   *)
(* operators + - * / // %, the converter's postfix output equals that of a *)
(* reference parse in which * / // % bind tighter than + - and operators   *)
(* of equal precedence group left to right.                                *)
(***************************************************************************)
RefLevel(op) == IF op \in {"+", "-"} THEN 1 ELSE 2

OperatorPositions(tokens) == {i \in 1..Len(tokens) : i % 2 = 0}

\* the operator applied last: the rightmost one of the loosest level present
RefSplit(tokens) ==
    LET ops == OperatorPositions(tokens)
        loosest == IF \E i \in ops : RefLevel(tokens[i]) = 1 THEN 1 ELSE 2
    IN CHOOSE i \in ops :
          /\ RefLevel(tokens[i]) = loosest
          /\ \A j \in ops : j > i => RefLevel(tokens[j]) # loosest

RECURSIVE RefPostfix(_)
RefPostfix(tokens) ==
    IF Len(tokens) <= 1 THEN tokens
    ELSE LET p == RefSplit(tokens)
         IN RefPostfix(SubSeq(tokens, 1, p - 1))
              \o RefPostfix(SubSeq(tokens, p + 1, Len(tokens)))
              \o <<tokens[p]>>

C6_PostfixMatchesReference ==
    /\ pc = "error" => rpn_expression # <<>>
    /\ StreamHandedOver => rpn_expression = Elements(RefPostfix(input))

C6_Witness ==
    /\ StreamHandedOver
    /\ input = <<"1", "-", "2", "+", "1", "*", "2">>
    /\ rpn_expression = Elements(<<"1", "2", "-", "1", "2", "*", "+">>)

(***************************************************************************)
(* C7: the sign normalizer replaces every run of consecutive "+"/"-"       *)
(* tokens that is followed by a non-sign token with at most one token,     *)
(* negative exactly when the run holds an odd number of "-"; and           *)
(* calculate("--+- 1 -- 1") is the value of -1 + 1.                        *)
(***************************************************************************)
IsSign(token) == token \in {"+", "-"}

\* the input with every sign run that a non-sign token follows replaced by
\* "run-" (odd number of minuses) or "run+" (even); a run at the end stays
RECURSIVE RefCollapse(_, _)
RefCollapse(tokens, run) ==
    IF tokens = <<>> THEN run
    ELSE IF IsSign(Head(tokens)) THEN RefCollapse(Tail(tokens), Append(run, Head(tokens)))
    ELSE (IF run = <<>> THEN <<>>
          ELSE IF CountOf(run, "-") % 2 = 1 THEN <<"run-">> ELSE <<"run+">>)
         \o <<Head(tokens)>> \o RefCollapse(Tail(tokens), <<>>)

\* out has one negative token for each "run-", at most one "+" for each "run+"
RECURSIVE MatchesRuns(_, _)
MatchesRuns(out, ref) ==
    IF ref = <<>> THEN out = <<>>
    ELSE IF Head(ref) = "run-" THEN
        /\ out # <<>>
        /\ Head(out) \in {"-", "-u"}
        /\ MatchesRuns(Tail(out), Tail(ref))
    ELSE IF Head(ref) = "run+" THEN
        \/ out # <<>> /\ Head(out) = "+" /\ MatchesRuns(Tail(out), Tail(ref))
        \/ MatchesRuns(out, Tail(ref))
    ELSE /\ out # <<>>
         /\ Head(out) = Head(ref)
         /\ MatchesRuns(Tail(out), Tail(ref))

SignExample == <<"-", "-", "+", "-", "1", "-", "-", "1">>

C7_RunsCollapseByParity ==
    /\ pc # "normalize" => MatchesRuns(expression, RefCollapse(input, <<>>))
    /\ input = SignExample =>
          /\ pc \notin {"error", "overgrown", "unmodelled"}
          /\ Returned => result = VFloat(0, 1)

C7_Witness ==
    /\ Returned
    /\ input = SignExample
    /\ expression = <<"-u", "1", "+", "1">>

(***************************************************************************)
(* C8: calculate fails for every expression that ends in a "+" or "-"      *)
(* token.                                                                  *)
(***************************************************************************)
EndsInSign(tokens) == tokens # <<>> /\ IsSign(tokens[Len(tokens)])

C8_TrailingSignNeverReturns == ~(Returned /\ EndsInSign(input))

(***************************************************************************)
(* C9: the converter fails for every token sequence in which a registry    *)
(* function identifier is not immediately followed by "(", also when the   *)
(* identifier is the last token; it pushes no function marker then.        *)
(***************************************************************************)
\* the token at 0-based position i is a function name with no "(" after it
BareFunction(tokens, i) ==
    /\ PyGet(tokens, i) \in MODULE_FUNCTIONS
    /\ ~(InRange(tokens, i + 1) /\ PyGet(tokens, i + 1) = "(")

\* the converter returns only when no function name is bare
C9_ReturnsOnlyWithParens ==
    pc = "evaluate" => \A i \in 0..(Len(expression) - 1) : ~BareFunction(expression, i)

\* the converter step at a bare function name raises and pushes nothing
C9_BareFunctionStepFails ==
    (pc = "convert" /\ index < Len(expression) /\ BareFunction(expression, index))
        => /\ pc' = "error"
           /\ UNCHANGED <<result_stack, operator_stack>>

C9_BareFunctionFails == [](C9_ReturnsOnlyWithParens) /\ [][C9_BareFunctionStepFails]_vars

C9_Witness ==
    /\ pc = "error"
    /\ error = "ERROR: no opening bracket after function"
    /\ expression = <<"abs", "1">>
    /\ operator_stack = <<>>

(***************************************************************************)
(* C10: comparison operators bind more loosely than every arithmetic       *)
(* operator and chain left to right: a cmp1 b cmp2 c is converted to       *)
(* a b cmp1 c cmp2 and evaluated as (a cmp1 b) cmp2 c; an incoming         *)
(* comparison operator pops every stack entry down to, but not including,  *)
(* the nearest "(".                                                        *)
(***************************************************************************)
IsCmpChain(tokens) ==
    /\ Len(tokens) = 5
    /\ tokens[1] \in Literals /\ tokens[3] \in Literals /\ tokens[5] \in Literals
    /\ tokens[2] \in COMPARISON_OPERATIONS /\ tokens[4] \in COMPARISON_OPERATIONS

\* Python's comparison of two numbers, bools counting as 0 and 1
RefCompare(op, x, y) ==
    CASE op = "==" -> x = y
      [] op = "!=" -> x # y
      [] op = "<" -> x < y
      [] op = ">" -> x > y
      [] op = "<=" -> x <= y
      [] op = ">=" -> x >= y

Truth(b) == IF b THEN 1 ELSE 0

C10_ChainGroupsLeft ==
    IsCmpChain(input) =>
        /\ pc \notin {"error", "overgrown", "unmodelled"}
        /\ StreamHandedOver =>
              rpn_expression =
                  Elements(<<input[1], input[3], input[2], input[5], input[4]>>)
        /\ Returned =>
              result = VBool(RefCompare(input[4],
                                 Truth(RefCompare(input[2], FloatOf(input[1]),
                                                  FloatOf(input[3]))),
                                 FloatOf(input[5])))

\* a op b cmp c and a cmp b op c, op arithmetic: the arithmetic is applied first
C10_ArithmeticBindsTighter ==
    (/\ Len(input) = 5
     /\ input[1] \in Literals /\ input[3] \in Literals /\ input[5] \in Literals
     /\ StreamHandedOver) =>
        /\ (input[2] \in ARITHMETICAL_OPERATIONS /\ input[4] \in COMPARISON_OPERATIONS)
              => rpn_expression =
                    Elements(<<input[1], input[3], input[2], input[5], input[4]>>)
        /\ (input[2] \in COMPARISON_OPERATIONS /\ input[4] \in ARITHMETICAL_OPERATIONS)
              => rpn_expression =
                    Elements(<<input[1], input[3], input[5], input[4], input[2]>>)

\* the 1-based position of the "(" nearest the top of the stack, 0 when none
RECURSIVE NearestParen(_, _)
NearestParen(os, p) ==
    IF p = 0 THEN 0
    ELSE IF os[p] = VStr("(") THEN p
    ELSE NearestParen(os, p - 1)

\* a converter step on an incoming comparison operator moves everything above
\* the nearest "(" to the output, top first, and pushes the operator
C10_ComparisonPopsToParen ==
    (pc = "convert" /\ index < Len(expression)
        /\ PyGet(expression, index) \in COMPARISON_OPERATIONS)
        => LET p == NearestParen(operator_stack, Len(operator_stack))
           IN /\ operator_stack' =
                    Append(SubSeq(operator_stack, 1, p), VStr(PyGet(expression, index)))
              /\ result_stack' =
                    result_stack
                      \o Reversed(SubSeq(operator_stack, p + 1, Len(operator_stack)))

C10_ComparisonsLoosestLeftToRight ==
    /\ [](C10_ChainGroupsLeft /\ C10_ArithmeticBindsTighter)
    /\ [][C10_ComparisonPopsToParen]_vars

C10_Witness ==
    /\ Returned
    /\ input = <<"2", ">", "1", ">", "1">>
    /\ result = VBool(FALSE)

(***************************************************************************)
(* C11: calculate is deterministic and keeps nothing from one call to the  *)
(* next: whenever a call ends on a string that an earlier call was made    *)
(* on, whatever calls (failing ones too) came in between, it ends the same *)
(* way, with the same value or the same exception.  The tables             *)
(* (MODULE_CONSTANTS, MODULE_FUNCTIONS, PRECEDENCE, ...) are definitions   *)
(* of this module and not variables: no statement of calculate or of the   *)
(* stages assigns to them or to an entry of them.                          *)
(***************************************************************************)
CallEnded == pc \in {"done", "error", "unmodelled", "overgrown"}

C11_SameOutcomeEachTime ==
    (CallEnded /\ remembered # NoCall /\ remembered.input = input) =>
        /\ pc = remembered.pc
        /\ result = remembered.result
        /\ error = remembered.error

\* a string returned a value, then some call raised, then the same string
\* returned again
C11_Witness ==
    /\ pc = "done"
    /\ remembered.pc = "done"
    /\ remembered.input = input
    /\ remembered.failed_since
    /\ \E i \in 1..Len(input) : input[i] = "-"

(***************************************************************************)
(* C12: the tokenizer matches the two-character operators == != <= >= //   *)
(* before the one-character ones.  The tokens are the pieces of the        *)
(* string, in order, without its blanks; wherever two adjacent characters  *)
(* form a two-character operator (and the first of them is not already the *)
(* second character of a two-character operator matched one position       *)
(* earlier, as the second = of <==), one token holds exactly these two     *)
(* characters; no two one-character tokens that were adjacent in the       *)
(* string form a two-character operator; and "/ /" gives two tokens "/".   *)
(***************************************************************************)
\* parse_expression has returned and the normalizer has not yet looked at a
\* token
Tokenized == pc = "normalize" /\ index = 0

TwoCharacterOperators == {"==", "!=", "<=", ">=", "//"}

\* the position in s of each token of t, reading s from position p and
\* skipping blanks; 0 for a token the string has no room for
RECURSIVE TokenStarts(_, _, _)
TokenStarts(s, p, t) ==
    IF t = <<>> THEN <<>>
    ELSE IF p > Len(s) THEN <<0>> \o TokenStarts(s, p, Tail(t))
    ELSE IF s[p] = " " THEN TokenStarts(s, p + 1, t)
    ELSE <<p>> \o TokenStarts(s, p + Len(Head(t)), Tail(t))

C12_LongestMatch ==
    Tokenized =>
        LET at == TokenStarts(input, 1, expression)
            covers(i, p, text) == at[i] = p /\ expression[i] = text
        IN /\ \A i \in 1..Len(expression) :
                /\ at[i] # 0
                /\ at[i] + Len(expression[i]) - 1 <= Len(input)
                /\ expression[i] =
                      Join(SubSeq(input, at[i], at[i] + Len(expression[i]) - 1))
           /\ \A p \in 1..(Len(input) - 1) :
                (/\ input[p] \o input[p + 1] \in TwoCharacterOperators
                 /\ ~\E i \in 1..Len(expression) :
                        at[i] = p - 1 /\ expression[i] \in TwoCharacterOperators)
                => \E i \in 1..Len(expression) :
                        covers(i, p, input[p] \o input[p + 1])
           /\ \A i \in 1..(Len(expression) - 1) :
                (Len(expression[i]) = 1 /\ at[i + 1] = at[i] + 1)
                => expression[i] \o expression[i + 1] \notin TwoCharacterOperators
           /\ (input = <<"/", " ", "/">> => expression = <<"/", "/">>)

\* "//==" has been split into its two operators
C12_Witness ==
    /\ Tokenized
    /\ input = <<"/", "/", "=", "=">>
    /\ expression = <<"//", "==">>

(***************************************************************************)
(* C15: parse_expression raises for the empty string and for a string of   *)
(* whitespace only: it never returns an empty token list.                  *)
(***************************************************************************)
C15_NeverReturnsNoTokens == ~(Tokenized /\ expression = <<>>)

(***************************************************************************)
(* C19: no token that parse_expression returns is empty or a whitespace    *)
(* character (space, tab, newline).                                        *)
(***************************************************************************)
C19_NoWhitespaceToken ==
    Tokenized =>
        \A i \in 1..Len(expression) : expression[i] \notin Whitespace \cup {""}

(***************************************************************************)
(* C13: the normalizer makes a collapsed sign unary whenever it is the     *)
(* first token or the token before it is an operator (arithmetic or        *)
(* comparison), "(" or ",".  So in the list the normalizer returns, a sign *)
(* that is still "+" or "-" and is followed by a token that is not a sign  *)
(* (a collapsed run that was kept as a binary operator) is never the first *)
(* token and never directly after an operator, "(" or ",".                 *)
(***************************************************************************)
\* process_negative_numbers has returned and the converter has not yet looked
\* at a token
Normalized == pc = "convert" /\ index = 0

C13_SignAfterOperatorIsUnary ==
    Normalized =>
        \A i \in 1..(Len(expression) - 1) :
            (IsSign(expression[i]) /\ ~IsSign(expression[i + 1]))
            => /\ i > 1
               /\ expression[i - 1] \notin
                     ARITHMETICAL_OPERATIONS \cup COMPARISON_OPERATIONS \cup {"(", ","}

(***************************************************************************)
(* C14: every stream the converter returns is well-formed: it holds only   *)
(* numbers, operators, the unary minus and function markers, and read from *)
(* the left with one stack (two operands for a binary operator, one for    *)
(* the unary minus, its count for a marker) it never lacks an operand and  *)
(* leaves exactly one value.                                               *)
(***************************************************************************)
\* the converter has returned its stream and the evaluator has not yet
\* reduced anything
ConverterReturned ==
    /\ pc = "evaluate"
    /\ index = 0
    /\ rpn_expression = Drain(result_stack, operator_stack)

\* the height of the stack after the stream, from height h; -1 once an
\* element lacked an operand or was no element of a postfix stream
RECURSIVE StackHeight(_, _)
StackHeight(stream, h) ==
    IF h < 0 \/ stream = <<>> THEN h
    ELSE LET x == Head(stream)
             after == IF IsResult(x) THEN h + 1
                      ELSE IF IsList(x) THEN (IF h >= x.n THEN h - x.n + 1 ELSE -1)
                      ELSE IF x = VStr("-u") THEN (IF h >= 1 THEN h ELSE -1)
                      ELSE IF IsOperation(x) THEN (IF h >= 2 THEN h - 1 ELSE -1)
                      ELSE -1
         IN StackHeight(Tail(stream), after)

WellFormedStream(stream) == StackHeight(stream, 0) = 1

C14_ReturnedStreamIsWellFormed ==
    (ConverterReturned /\ expression # <<>>) => WellFormedStream(rpn_expression)

(***************************************************************************)
(* C16: a comma adds one to the argument count of the call whose argument  *)
(* parentheses directly contain it, and to no other.  A converter step on  *)
(* a comma that does not raise leaves the nearest "(" on top of the        *)
(* operator stack; the marker directly under that "(", if there is one, is *)
(* the call the comma belongs to and its count goes up by one; every other *)
(* marker keeps its count (so a comma inside grouping parentheses, as in   *)
(* f((a, b)), counts for no call).                                         *)
(***************************************************************************)
C16_CommaCountsOnlyItsOwnCall ==
    (pc = "convert" /\ index < Len(expression) /\ PyGet(expression, index) = ","
        /\ pc' = "convert")
        => LET top == Len(operator_stack')
           IN \A k \in 1..top :
                IsList(operator_stack'[k])
                => operator_stack'[k].n =
                     operator_stack[k].n + (IF k = top - 1 THEN 1 ELSE 0)

C16_ArityCountsTopLevelCommas == [][C16_CommaCountsOnlyItsOwnCall]_vars

(***************************************************************************)
(* C17: the unary minus binds tighter than every binary operator, "^"      *)
(* included: -a^b becomes a -u b ^ with the value (-a)^b, a^-b becomes     *)
(* a b -u ^ with the value a^(-b), and a converter step on a binary        *)
(* operator that finds the unary minus on top of the operator stack moves  *)
(* it to the output.                                                       *)
(***************************************************************************)
C17_MinusBeforePower ==
    (Len(input) = 4 /\ input[1] = "-" /\ input[2] \in Literals
        /\ input[3] = "^" /\ input[4] \in Literals) =>
        /\ pc \notin {"error", "overgrown"}
        /\ ConverterReturned =>
              rpn_expression = Elements(<<input[2], "-u", input[4], "^">>)
        /\ Returned =>
              result = VFloat(IntPow(0 - FloatOf(input[2]), FloatOf(input[4])), 1)

C17_MinusInExponent ==
    (Len(input) = 4 /\ input[1] \in Literals /\ input[2] = "^"
        /\ input[3] = "-" /\ input[4] \in Literals) =>
        /\ pc \notin {"error", "overgrown"}
        /\ ConverterReturned =>
              rpn_expression = Elements(<<input[1], input[4], "-u", "^">>)
        /\ Returned =>
              \* a^(-b) = 1 / a^b
              /\ result.k = "float"
              /\ result.n * IntPow(FloatOf(input[1]), FloatOf(input[4])) = result.d

C17_BinaryPopsUnaryMinus ==
    (pc = "convert" /\ index < Len(expression)
        /\ PyGet(expression, index) \in
              (ARITHMETICAL_OPERATIONS \cup COMPARISON_OPERATIONS) \ {"-u"}
        /\ operator_stack # <<>> /\ Top(operator_stack) = VStr("-u"))
        => /\ Len(result_stack') > Len(result_stack)
           /\ result_stack'[Len(result_stack) + 1] = VStr("-u")
           /\ SubSeq(result_stack', 1, Len(result_stack)) = result_stack

C17_UnaryMinusBindsTightest ==
    /\ [](C17_MinusBeforePower /\ C17_MinusInExponent)
    /\ [][C17_BinaryPopsUnaryMinus]_vars

\* -2^2 has returned 4
C17_Witness ==
    /\ Returned
    /\ input = <<"-", "2", "^", "2">>
    /\ result = VFloat(4, 1)

(***************************************************************************)
(* C18: on a well-formed postfix stream the evaluator, which rewrites its  *)
(* list in place, ends as a stack evaluator does: "a b op" is a op b, the  *)
(* unary minus negates the element before it, a marker {name, k} applies   *)
(* the function to the k values before it in their order; it returns the   *)
(* value the stack evaluator returns and raises where that one raises.     *)
(***************************************************************************)
\* the evaluator alone, handed any well-formed stream of at most MaxStream
\* elements; result_stack keeps the stream as the converter would have
\* returned it
StreamElements ==
    {VFloat(0, 1), VFloat(1, 1), VFloat(2, 1), VStr("-"), VStr("/"), VStr("<"),
     VStr("-u"), VFn("abs", 1), VFn("pow", 2)}

InitEval ==
    /\ input = <<>>
    /\ pc = "evaluate"
    /\ expression = <<>>
    /\ index = 0
    /\ minus_counter = 0
    /\ sign_counter = 0
    /\ result_stack \in {stream \in SeqsUpTo(StreamElements, MaxStream) :
                            WellFormedStream(stream)}
    /\ operator_stack = <<>>
    /\ rpn_expression = result_stack
    /\ result = NoValue
    /\ error = ""
    /\ remembered = NoCall

NextEval == Evaluate \/ EvaluateReturn
SpecEval == InitEval /\ [][NextEval]_vars

\* the stack evaluator: the outcome of the stream from the stack st on
RECURSIVE RefEvaluate(_, _)
RefEvaluate(stream, st) ==
    IF stream = <<>> THEN Ok(st[Len(st)])
    ELSE LET x == Head(stream)
             h == Len(st)
             taken == IF IsResult(x) THEN 0
                      ELSE IF IsList(x) THEN x.n
                      ELSE IF x = VStr("-u") THEN 1
                      ELSE 2
             r == IF IsResult(x) THEN Ok(x)
                  ELSE IF IsList(x)
                  THEN CallFunction(x.s, SubSeq(st, h - x.n + 1, h))
                  ELSE IF x = VStr("-u") THEN Negate(st[h])
                  ELSE BinaryOp(x.s, st[h - 1], st[h])
         IN IF r.st # "ok" THEN r
            ELSE RefEvaluate(Tail(stream), Append(SubSeq(st, 1, h - taken), r.v))

C18_EvaluatorMatchesStackEvaluator ==
    /\ pc # "overgrown"
    /\ CallEnded =>
          LET r == RefEvaluate(result_stack, <<>>)
          IN /\ pc = "done" <=> r.st = "ok"
             /\ pc = "done" => result = r.v
             /\ pc = "error" <=> r.st = "raise"

\* 1 2 1 - / has returned 1 / (2 - 1)
C18_Witness ==
    /\ pc = "done"
    /\ result_stack = <<VFloat(1, 1), VFloat(2, 1), VFloat(1, 1), VStr("-"),
                         VStr("/")>>
    /\ result = VFloat(1, 1)

(***************************************************************************)
(* C20: while it evaluates a stream of the pipeline, the evaluator never   *)
(* takes an operand from a position before the start of its list: where    *)
(* the loop goes on, its cursor is a position of the list, a binary        *)
(* operator under the cursor has two elements before it, a unary minus     *)
(* one, a marker of count k has k; and its list is never longer than the   *)
(* stream the converter returned.                                          *)
(***************************************************************************)
\* the elements the evaluator takes for the element x
OperandsTaken(x) ==
    IF IsList(x) THEN x.n
    ELSE IF x = VStr("-u") THEN 1
    ELSE IF IsOperation(x) THEN 2
    ELSE 0

C20_OperandsAreBeforeTheCursor ==
    (pc = "evaluate" /\ Len(rpn_expression) > 1) =>
        /\ index >= 0
        /\ index <= Len(rpn_expression) - 1
        /\ index >= OperandsTaken(PyGet(rpn_expression, index))
        /\ Len(rpn_expression) <= Len(result_stack) + Len(operator_stack)
====
